---- MODULE Spec2Model ----
(***************************************************************************)
(* Model of the Huffman ctypes bridge (python/wrapper.py) and of the       *)
(* round-trip demo harness (python/demo.py).                               *)
(*                                                                         *)
(* Text (str) values are sequences of Unicode code points, byte strings    *)
(* are sequences of 0..255.  The native library is an external             *)
(* collaborator: each foreign call returns some C int and may or may not   *)
(* write the file named by its output argument.                            *)
(***************************************************************************)
EXTENDS Integers, Sequences, FiniteSets

VARIABLES
    pc,           \* position of the process
    platform,     \* sys.platform
    scriptDir,    \* os.path.dirname(__file__) of the python/ directory
    libs,         \* paths of the files that exist under ../bin
    fs,           \* path -> file (present with its bytes, or Missing)
    fs0,          \* fs as it was when the process started (history)
    lib_name,     \* wrapper.lib_name (<<>> before it is assigned)
    lib_path,     \* wrapper.lib_path (<<>> before it is assigned)
    libhuffman,   \* wrapper.libhuffman: NoHandle or the loaded library
    bound,        \* argtypes/restype of both entry points are set
    loadError,    \* ctypes.CDLL raised OSError
    calls,        \* foreign calls made so far (history)
    out,          \* lines printed so far
    stages,       \* harness stages / bridge operations run so far (history)
    last          \* the last bridge operation invoked (history)

vars == <<pc, platform, scriptDir, libs, fs, fs0, lib_name, lib_path, libhuffman,
          bound, loadError, calls, out, stages, last>>

-----------------------------------------------------------------------------
(* Bounds of the model *)

\* native statuses range over -MaxStatus..MaxStatus and the two ends of C int
MaxStatus == 1
\* file contents are byte strings of at most MaxLen bytes
MaxLen == 1
\* a client of the bridge makes at most MaxCalls bridge calls
MaxCalls == 2

\* ctypes.c_int is a 32 bit signed integer
INT_MAX == 2147483647
INT_MIN == -INT_MAX - 1

Bytes == {0, 255}
Contents == UNION {[1..n -> Bytes] : n \in 0..MaxLen}
File(data) == [exists |-> TRUE, data |-> data]
Missing == [exists |-> FALSE, data |-> <<>>]
Files == {Missing} \cup {File(c) : c \in Contents}
\* what an earlier run may have left behind of an intermediate file
StaleFiles == {Missing, File(<<>>)}
NoHandle == [loaded |-> FALSE, path |-> <<>>]

StatusValues == (-MaxStatus..MaxStatus) \cup {INT_MIN, INT_MAX}

-----------------------------------------------------------------------------
(* Text constants of the source, as code points *)

LibSo == <<108, 105, 98, 104, 117, 102, 102, 109, 97, 110, 46, 115, 111>>
LibDll == <<108, 105, 98, 104, 117, 102, 102, 109, 97, 110, 46, 100, 108, 108>>
LibDylib == <<108, 105, 98, 104, 117, 102, 102, 109, 97, 110, 46, 100, 121, 108, 105, 98>>
DotDot == <<46, 46>>
BinDir == <<98, 105, 110>>
TestFiles == <<116, 101, 115, 116, 95, 102, 105, 108, 101, 115>>
SampleTxt == <<115, 97, 109, 112, 108, 101, 46, 116, 120, 116>>
SamplePyHuff == <<115, 97, 109, 112, 108, 101, 95, 112, 121, 46, 104, 117, 102, 102>>
RestoredPyTxt == <<114, 101, 115, 116, 111, 114, 101, 100, 95, 112, 121, 46, 116, 120, 116>>
Win == <<119, 105, 110>>
Darwin == <<100, 97, 114, 119, 105, 110>>
Linux == <<108, 105, 110, 117, 120>>

\* values of sys.platform: linux, win32, darwin, and freebsd13 for a platform
\* of none of the three families
Win32 == <<119, 105, 110, 51, 50>>
FreeBSD == <<102, 114, 101, 101, 98, 115, 100, 49, 51>>
Platforms == {Linux, Win32, Darwin, FreeBSD}

\* values of dirname(__file__): "" (script run from its own directory),
\* "pé" and "p\udc80" (a directory name that is not valid UTF-8 reaches
\* Python as a lone surrogate)
ScriptDirs == { <<>>, <<112, 233>>, <<112, 56448>> }

-----------------------------------------------------------------------------
(* Library functions used by the source *)

\* str.startswith
StartsWith(s, prefix) ==
    /\ Len(s) >= Len(prefix)
    /\ SubSeq(s, 1, Len(prefix)) = prefix

\* os.sep: ntpath on Windows, posixpath elsewhere
Sep(plat) == IF StartsWith(plat, Win) THEN <<92>> ELSE <<47>>

\* one step of os.path.join
Join2(plat, a, b) ==
    IF Len(b) > 0 /\ <<b[1]>> = Sep(plat) THEN b
    ELSE IF Len(a) = 0 \/ <<a[Len(a)]>> = Sep(plat) \/ a[Len(a)] = 47 THEN a \o b
    ELSE a \o Sep(plat) \o b

\* os.path.join(a, b, c)
Join3(plat, a, b, c) == Join2(plat, Join2(plat, a, b), c)

\* os.path.join(a, b, c, d)
Join4(plat, a, b, c, d) == Join2(plat, Join3(plat, a, b, c), d)

\* UTF-8 encoding of one code point; <<>> stands for "cannot be encoded"
\* (a surrogate, U+D800..U+DFFF)
Utf8Char(c) ==
    IF c < 128 THEN <<c>>
    ELSE IF c < 2048 THEN <<192 + (c \div 64), 128 + (c % 64)>>
    ELSE IF c >= 55296 /\ c <= 57343 THEN <<>>
    ELSE IF c < 65536
         THEN <<224 + (c \div 4096), 128 + ((c \div 64) % 64), 128 + (c % 64)>>
    ELSE <<240 + (c \div 262144), 128 + ((c \div 4096) % 64),
           128 + ((c \div 64) % 64), 128 + (c % 64)>>

RECURSIVE Utf8Bytes(_)
Utf8Bytes(s) == IF s = <<>> THEN <<>> ELSE Utf8Char(Head(s)) \o Utf8Bytes(Tail(s))

\* str.encode('utf-8', errors='replace'): every surrogate becomes "?"
Utf8EncodeReplace(s) ==
    [ok |-> TRUE,
     bytes |-> Utf8Bytes([i \in 1..Len(s) |->
                            IF Utf8Char(s[i]) = <<>> THEN 63 ELSE s[i]])]

\* str.encode('utf-8'): the bytes, or UnicodeEncodeError (ok = FALSE)
Utf8Encode(s) ==
    IF \E i \in 1..Len(s) : Utf8Char(s[i]) = <<>>
    THEN [ok |-> FALSE, bytes |-> <<>>]
    ELSE [ok |-> TRUE, bytes |-> Utf8Bytes(s)]

\* os.path.exists on the files of the model
Exists(fsys, p) == p \in DOMAIN fsys /\ fsys[p] # Missing

\* filecmp.cmp(f1, f2, shallow=True): the os.stat signatures decide
FilecmpShallow(fsys, f1, f2) ==
    IF ~Exists(fsys, f1) \/ ~Exists(fsys, f2) THEN "FileNotFoundError"
    ELSE IF Len(fsys[f1].data) = Len(fsys[f2].data) THEN "True"
    ELSE "False"

\* filecmp.cmp(f1, f2, shallow=False): os.stat both, sizes, then the bytes
Filecmp(fsys, f1, f2) ==
    IF ~Exists(fsys, f1) \/ ~Exists(fsys, f2) THEN "FileNotFoundError"
    ELSE IF Len(fsys[f1].data) # Len(fsys[f2].data) THEN "False"
    ELSE IF \A i \in 1..Len(fsys[f1].data) : fsys[f1].data[i] = fsys[f2].data[i]
         THEN "True"
    ELSE "False"

\* os.remove of an existing file
Remove(fsys, p) == [fsys EXCEPT ![p] = Missing]

-----------------------------------------------------------------------------
(* The native library, seen from the bridge *)

\* What a foreign call does to its output file: nothing, or (over)write it.
\* The compressed format is opaque to the bridge and to the harness, which
\* never read it: one blob stands for whatever api_compress_file writes.
\* What api_decompress_file writes is compared with the fixture, so it
\* ranges over all contents.
Blob == <<72>>
NoWrite == [write |-> FALSE, data |-> <<>>]
CompressEffects == {NoWrite, [write |-> TRUE, data |-> Blob]}
DecompressEffects == {NoWrite} \cup {[write |-> TRUE, data |-> c] : c \in Contents}

\* the file system after a foreign call whose output argument is c_output
NativeWrite(fsys, c_output, w) ==
    [p \in DOMAIN fsys |->
        IF /\ w.write
           /\ \A i \in 1..Len(p) : Utf8Char(p[i]) # <<>>
           /\ Utf8Bytes(p) = c_output
        THEN File(w.data)
        ELSE fsys[p]]

-----------------------------------------------------------------------------
(* wrapper.py: module initialization *)

\* a chain that tests 'win' last, so that "darwin" is taken for Windows-like
\* by a substring test
ResolveLibNameContains(plat) ==
    IF \E i \in 1..Len(plat) : StartsWith(SubSeq(plat, i, Len(plat)), Win) THEN LibDll
    ELSE IF StartsWith(plat, Darwin) THEN LibDylib
    ELSE LibSo

\* lib_name, from sys.platform
ResolveLibName(plat) ==
    IF StartsWith(plat, Win) THEN LibDll
    ELSE IF StartsWith(plat, Darwin) THEN LibDylib
    ELSE LibSo

\* lib_path
ResolveLibPath(plat, dir, name) == Join4(plat, dir, DotDot, BinDir, name)

WrapperResolve ==
    /\ pc = "import"
    /\ lib_name' = ResolveLibName(platform)
    /\ lib_path' = ResolveLibPath(platform, scriptDir, ResolveLibName(platform))
    /\ pc' = "check_exists"
    /\ UNCHANGED <<platform, scriptDir, libs, fs, fs0, libhuffman, bound, loadError,
                   calls, out, stages, last>>

\* where initialization goes after os.path.exists(lib_path)
AfterExistsCheck(exists) == IF ~exists THEN "exit1" ELSE "load"

WrapperCheckExists ==
    /\ pc = "check_exists"
    /\ pc' = AfterExistsCheck(lib_path \in libs)
    /\ out' = IF lib_path \in libs THEN out
              ELSE out \o <<"Error: Shared library not found at",
                            "Please compile the C code first">>
    /\ UNCHANGED <<platform, scriptDir, libs, fs, fs0, lib_name, lib_path, libhuffman,
                   bound, loadError, calls, stages, last>>

\* the OSError swallowed
AfterLoadIgnoreError(ok) == "bind"

\* where initialization goes after ctypes.CDLL(lib_path)
AfterLoad(ok) == IF ok THEN "bind" ELSE "exit1"

\* ctypes.CDLL: the loader accepts an existing file or rejects it (OSError);
\* a file that does not exist is rejected
WrapperLoad ==
    /\ pc = "load"
    /\ \/ /\ lib_path \in libs
          /\ libhuffman' = [loaded |-> TRUE, path |-> lib_path]
          /\ loadError' = FALSE
          /\ pc' = AfterLoad(TRUE)
          /\ out' = out
       \/ /\ libhuffman' = NoHandle
          /\ loadError' = TRUE
          /\ pc' = AfterLoad(FALSE)
          /\ out' = out \o <<"Error loading C library:",
                             "This can happen if you are trying to run this on Windows *without* WSL.">>
    /\ UNCHANGED <<platform, scriptDir, libs, fs, fs0, lib_name, lib_path, bound,
                   calls, stages, last>>

\* argtypes and restype of both entry points; an attribute of a library that
\* was never loaded cannot be bound (NameError)
WrapperBind ==
    /\ pc = "bind"
    /\ IF libhuffman.loaded
       THEN bound' = TRUE /\ pc' = "main"
       ELSE bound' = FALSE /\ pc' = "crashed"
    /\ UNCHANGED <<platform, scriptDir, libs, fs, fs0, lib_name, lib_path, libhuffman,
                   loadError, calls, out, stages, last>>

-----------------------------------------------------------------------------
(* wrapper.py: compress and decompress *)

\* any status that is not negative reads as success
CompressOkNonNegative(ret) == ret >= 0

\* compress: the interpretation of the status
CompressOk(ret) == ret = 0

\* decompress: the interpretation of the status
DecompressOk(ret) == ret = 0

\* One bridge operation on entry point fn.  ret and w are what the native
\* library answers if it is called; strict says whether standard output
\* refuses a surrogate (then the first print raises UnicodeEncodeError, before
\* the paths are encoded).  The result: whether an exception escaped, the
\* value returned, the file system, the foreign calls made, the lines printed.
BridgeCall(fn, ok, fsys, input_path, output_path, ret, w, strict, calling, good, bad) ==
    LET c_input == Utf8Encode(input_path)
        c_output == Utf8Encode(output_path)
    IN  IF strict /\ \E i \in 1..Len(input_path) : Utf8Char(input_path[i]) = <<>>
        THEN [raised |-> TRUE, result |-> FALSE, fs |-> fsys, calls |-> <<>>,
              out |-> <<>>]
        ELSE IF ~c_input.ok \/ ~c_output.ok
        THEN [raised |-> TRUE, result |-> FALSE, fs |-> fsys, calls |-> <<>>,
              out |-> <<calling>>]
        ELSE [raised |-> FALSE,
              result |-> ok,
              fs |-> NativeWrite(fsys, c_output.bytes, w),
              calls |-> <<[fn |-> fn, input |-> c_input.bytes,
                           output |-> c_output.bytes, ret |-> ret, result |-> ok]>>,
              out |-> <<calling, IF ok THEN good ELSE bad>>]

compress(fsys, input_path, output_path, ret, w, strict) ==
    BridgeCall("api_compress_file", CompressOk(ret), fsys, input_path, output_path,
               ret, w, strict, "[Python] Calling C function to compress",
               "[Python] C compression successful.", "[Python] C compression failed.")

decompress(fsys, input_path, output_path, ret, w, strict) ==
    BridgeCall("api_decompress_file", DecompressOk(ret), fsys, input_path, output_path,
               ret, w, strict, "[Python] Calling C function to decompress",
               "[Python] C decompression successful.", "[Python] C decompression failed.")

\* the history record of one bridge operation
Invocation(fn, input_path, output_path, r) ==
    [fn |-> fn, input_path |-> input_path, output_path |-> output_path,
     raised |-> r.raised, result |-> r.result, ncalls |-> Len(calls),
     wrote |-> r.fs # fs]

NoInvocation ==
    [fn |-> "none", input_path |-> <<>>, output_path |-> <<>>,
     raised |-> FALSE, result |-> FALSE, ncalls |-> 0, wrote |-> FALSE]

-----------------------------------------------------------------------------
(* demo.py *)

test_files_dir == Join3(platform, scriptDir, DotDot, TestFiles)
input_file == Join2(platform, test_files_dir, SampleTxt)
compressed_file == Join2(platform, test_files_dir, SamplePyHuff)
restored_file == Join2(platform, test_files_dir, RestoredPyTxt)

\* the entry point's check dropped
MainGuardOkAlways(libset, plat, dir) == TRUE

\* __main__: os.path.exists of ../bin/libhuffman.so
MainGuardOk(libset, plat, dir) == Join4(plat, dir, DotDot, BinDir, LibSo) \in libset

MainGuard ==
    /\ pc = "main"
    /\ IF MainGuardOk(libs, platform, scriptDir)
       THEN /\ pc' = "PreconditionCheck"
            /\ out' = out \o <<"--- Running Python CTypes Wrapper Demo ---">>
       ELSE /\ pc' = "done"
            /\ out' = out \o <<"Error: 'bin/libhuffman.so' not found.",
                               "Please run 'make lib' or 'make all' in the root directory first.">>
    /\ UNCHANGED <<platform, scriptDir, libs, fs, fs0, lib_name, lib_path, libhuffman,
                   bound, loadError, calls, stages, last>>

\* the fixture check dropped
FixtureOkAlways(fsys, f) == TRUE

\* run_demo: os.path.exists(input_file)
FixtureOk(fsys, f) == Exists(fsys, f)

PreconditionCheck ==
    /\ pc = "PreconditionCheck"
    /\ stages' = Append(stages, "PreconditionCheck")
    /\ IF FixtureOk(fs, input_file)
       THEN pc' = "Compress" /\ out' = out
       ELSE /\ pc' = "done"
            /\ out' = out \o <<"Error: 'test_files/sample.txt' not found.",
                               "Please create it before running the demo.">>
    /\ UNCHANGED <<platform, scriptDir, libs, fs, fs0, lib_name, lib_path, libhuffman,
                   bound, loadError, calls, last>>

\* the result of compress not looked at
AfterCompressIgnore(ok) == "Decompress"

\* run_demo: if not success_compress: return
AfterCompress(ok) == IF ~ok THEN "done" ELSE "Decompress"

Compress ==
    /\ pc = "Compress"
    /\ stages' = Append(stages, "Compress")
    /\ \E ret \in StatusValues, w \in CompressEffects,
          strict \in BOOLEAN :
          \E r \in {compress(fs, input_file, compressed_file, ret, w, strict)} :
              /\ last' = Invocation("compress", input_file, compressed_file, r)
              /\ fs' = r.fs
              /\ calls' = calls \o r.calls
              /\ IF r.raised
                 THEN pc' = "crashed" /\ out' = out \o r.out
                 ELSE /\ pc' = AfterCompress(r.result)
                      /\ out' = out \o r.out \o
                                (IF r.result THEN <<>>
                                 ELSE <<"Demo failed during compression.">>)
    /\ UNCHANGED <<platform, scriptDir, libs, fs0, lib_name, lib_path, libhuffman,
                   bound, loadError>>

\* run_demo: if not success_decompress: return
AfterDecompress(ok) == IF ~ok THEN "done" ELSE "Verify"

Decompress ==
    /\ pc = "Decompress"
    /\ stages' = Append(stages, "Decompress")
    /\ \E ret \in StatusValues, w \in DecompressEffects,
          strict \in BOOLEAN :
          \E r \in {decompress(fs, compressed_file, restored_file, ret, w, strict)} :
              /\ last' = Invocation("decompress", compressed_file, restored_file, r)
              /\ fs' = r.fs
              /\ calls' = calls \o r.calls
              /\ IF r.raised
                 THEN pc' = "crashed" /\ out' = out \o r.out
                 ELSE /\ pc' = AfterDecompress(r.result)
                      /\ out' = out \o r.out \o
                                (IF r.result THEN <<>>
                                 ELSE <<"Demo failed during decompression.">>)
    /\ UNCHANGED <<platform, scriptDir, libs, fs0, lib_name, lib_path, libhuffman,
                   bound, loadError>>

MsgIdentical == "SUCCESS: Restored file is identical to the original."
MsgDiffer == "FAILURE: Restored file is different from the original."
MsgNotCreated == "FAILURE: Output file was not created."

\* run_demo: the line the Verify step prints
Verdict(fsys, original, restored) ==
    LET c == Filecmp(fsys, original, restored)
    IN  IF c = "FileNotFoundError" THEN MsgNotCreated
        ELSE IF c = "True" THEN MsgIdentical
        ELSE MsgDiffer

Verify ==
    /\ pc = "Verify"
    /\ stages' = Append(stages, "Verify")
    /\ out' = out \o <<"[Python] Verifying integrity of",
                       Verdict(fs, input_file, restored_file)>>
    /\ pc' = "Cleanup"
    /\ UNCHANGED <<platform, scriptDir, libs, fs, fs0, lib_name, lib_path, libhuffman,
                   bound, loadError, calls, last>>

\* the file left where it is
RemoveIfExistsSkip(fsys, p) == fsys

\* run_demo: if os.path.exists(p): os.remove(p)
RemoveIfExists(fsys, p) == IF Exists(fsys, p) THEN Remove(fsys, p) ELSE fsys

Cleanup ==
    /\ pc = "Cleanup"
    /\ stages' = Append(stages, "Cleanup")
    /\ out' = out \o <<"[Python] Cleaning up demo files...">>
    /\ fs' = RemoveIfExists(RemoveIfExists(fs, compressed_file), restored_file)
    /\ pc' = "done"
    /\ UNCHANGED <<platform, scriptDir, libs, fs0, lib_name, lib_path, libhuffman,
                   bound, loadError, calls, last>>

-----------------------------------------------------------------------------
(* The demo run as a script *)

Init ==
    /\ pc = "import"
    /\ platform \in Platforms
    /\ scriptDir \in ScriptDirs
    /\ \E names \in SUBSET {LibSo, LibDll, LibDylib} :
          libs = {ResolveLibPath(platform, scriptDir, n) : n \in names}
    /\ \E f \in Files, c \in StaleFiles, r \in StaleFiles :
          fs = [p \in {input_file, compressed_file, restored_file} |->
                  IF p = input_file THEN f
                  ELSE IF p = compressed_file THEN c
                  ELSE r]
    /\ fs0 = fs
    /\ lib_name = <<>>
    /\ lib_path = <<>>
    /\ libhuffman = NoHandle
    /\ bound = FALSE
    /\ loadError = FALSE
    /\ calls = <<>>
    /\ out = <<>>
    /\ stages = <<>>
    /\ last = NoInvocation

Next ==
    \/ WrapperResolve
    \/ WrapperCheckExists
    \/ WrapperLoad
    \/ WrapperBind
    \/ MainGuard
    \/ PreconditionCheck
    \/ Compress
    \/ Decompress
    \/ Verify
    \/ Cleanup

Spec == Init /\ [][Next]_vars

-----------------------------------------------------------------------------
(* A client of the bridge: wrapper.py imported, compress and decompress     *)
(* called with paths of the client's choice                                 *)

\* "aé€" and "a\udc80"
ClientPaths == { <<97, 233, 8364>>, <<97, 56448>> }

InitBridge ==
    /\ pc = "client"
    /\ platform = Linux
    /\ scriptDir = <<>>
    /\ lib_name = ResolveLibName(platform)
    /\ lib_path = ResolveLibPath(platform, scriptDir, lib_name)
    /\ libs = {lib_path}
    /\ libhuffman = [loaded |-> TRUE, path |-> lib_path]
    /\ bound = TRUE
    /\ loadError = FALSE
    /\ \E f \in StaleFiles : fs = [p \in ClientPaths |-> f]
    /\ fs0 = fs
    /\ calls = <<>>
    /\ out = <<>>
    /\ stages = <<>>
    /\ last = NoInvocation

ClientCompress ==
    /\ pc = "client"
    /\ Len(stages) < MaxCalls
    /\ stages' = Append(stages, "compress")
    /\ \E input_path \in ClientPaths, output_path \in ClientPaths,
          ret \in StatusValues, w \in CompressEffects,
          strict \in BOOLEAN :
          \E r \in {compress(fs, input_path, output_path, ret, w, strict)} :
              /\ last' = Invocation("compress", input_path, output_path, r)
              /\ fs' = r.fs
              /\ calls' = calls \o r.calls
              /\ out' = out \o r.out
    /\ UNCHANGED <<pc, platform, scriptDir, libs, fs0, lib_name, lib_path, libhuffman,
                   bound, loadError>>

ClientDecompress ==
    /\ pc = "client"
    /\ Len(stages) < MaxCalls
    /\ stages' = Append(stages, "decompress")
    /\ \E input_path \in ClientPaths, output_path \in ClientPaths,
          ret \in StatusValues, w \in DecompressEffects,
          strict \in BOOLEAN :
          \E r \in {decompress(fs, input_path, output_path, ret, w, strict)} :
              /\ last' = Invocation("decompress", input_path, output_path, r)
              /\ fs' = r.fs
              /\ calls' = calls \o r.calls
              /\ out' = out \o r.out
    /\ UNCHANGED <<pc, platform, scriptDir, libs, fs0, lib_name, lib_path, libhuffman,
                   bound, loadError>>

NextBridge == ClientCompress \/ ClientDecompress

BridgeSpec == InitBridge /\ [][NextBridge]_vars

-----------------------------------------------------------------------------
(* Vocabulary of the properties *)

InSeq(x, s) == \E i \in 1..Len(s) : s[i] = x

IsPrefix(s, t) == Len(s) <= Len(t) /\ \A i \in 1..Len(s) : s[i] = t[i]

\* every code point of the path has a UTF-8 encoding (none is a surrogate)
Encodable(p) == \A i \in 1..Len(p) : p[i] < 55296 \/ p[i] > 57343

\* the platform identifier belongs to one of the three recognized families
Recognized(plat) ==
    StartsWith(plat, Linux) \/ StartsWith(plat, Win) \/ StartsWith(plat, Darwin)

HarnessStages == <<"PreconditionCheck", "Compress", "Decompress", "Verify", "Cleanup">>

VerifyMsgs == {MsgIdentical, MsgDiffer, MsgNotCreated}

\* how many lines of the Verify step have been printed
VerdictCount == Cardinality({i \in 1..Len(out) : out[i] \in VerifyMsgs})

MsgFixture == "Error: 'test_files/sample.txt' not found."
MsgNoSo == "Error: 'bin/libhuffman.so' not found."
FailureMsgs == {"Demo failed during compression.", "Demo failed during decompression.",
                "[Python] C compression failed.", "[Python] C decompression failed."}

\* run_demo was entered and has returned
RunEnded == pc = "done" /\ stages # <<>>

-----------------------------------------------------------------------------
(* C1 *)

\* C1: after any run of the harness that started with neither intermediate
\* file present has ended (success, abort at PreconditionCheck, abort after
\* compress or decompress returned false), neither sample_py.huff nor
\* restored_py.txt exists.
C1_CleanupInvariant ==
    (RunEnded /\ ~Exists(fs0, compressed_file) /\ ~Exists(fs0, restored_file))
        => (~Exists(fs, compressed_file) /\ ~Exists(fs, restored_file))

-----------------------------------------------------------------------------
(* C2 *)

\* C2: the stages run in the order PreconditionCheck, Compress, Decompress,
\* Verify (then Cleanup) with no back-edges; api_decompress_file is called
\* only after compress returned true, Verify runs only after decompress
\* returned true; after a false compress there is no decompress call, no
\* Verify and no report of success; after a false decompress no Verify.
C2_ShortCircuit ==
    /\ IsPrefix(stages, HarnessStages)
    /\ \A i \in 1..Len(calls) :
          calls[i].fn = "api_decompress_file"
              => i = 2 /\ calls[1].fn = "api_compress_file" /\ calls[1].result
    /\ (InSeq("Verify", stages) \/ pc = "Verify")
          => /\ Len(calls) = 2
             /\ calls[2].fn = "api_decompress_file"
             /\ calls[2].result
    /\ (Len(calls) >= 1 /\ ~calls[1].result)
          => /\ Len(calls) = 1
             /\ pc \in {"done"}
             /\ ~InSeq("Decompress", stages)
             /\ ~InSeq("Verify", stages)
             /\ ~InSeq(MsgIdentical, out)
    /\ (Len(calls) >= 2 /\ ~calls[2].result)
          => pc = "done" /\ ~InSeq("Verify", stages) /\ ~InSeq(MsgIdentical, out)

\* compress returned false and the run has ended at Compress
C2_Witness ==
    /\ pc = "done"
    /\ stages = <<"PreconditionCheck", "Compress">>
    /\ Len(calls) = 1
    /\ calls[1].ret # 0

-----------------------------------------------------------------------------
(* C3 *)

\* C3: if test_files/sample.txt does not exist when run_demo starts, the run
\* ends at PreconditionCheck with the fixture-not-found message: no foreign
\* call is made, Verify does not run, no file is created or removed.
C3_FixtureAbsent ==
    (stages # <<>> /\ ~Exists(fs0, input_file))
        => /\ pc = "done"
           /\ stages = <<"PreconditionCheck">>
           /\ calls = <<>>
           /\ fs = fs0
           /\ InSeq(MsgFixture, out)
           /\ VerdictCount = 0

\* the fixture is absent, a stale compressed file is present, the run has ended
C3_Witness ==
    /\ pc = "done"
    /\ stages # <<>>
    /\ ~Exists(fs0, input_file)
    /\ Exists(fs, compressed_file)

-----------------------------------------------------------------------------
(* C4 *)

\* C4: for every pair of paths and every status the entry point returns,
\* compress returns true iff api_compress_file returned exactly 0 and
\* decompress returns true iff api_decompress_file returned exactly 0; every
\* other status, positive or negative, yields false.
C4_StatusNormalisation ==
    /\ \A i \in 1..Len(calls) :
          /\ calls[i].result \in BOOLEAN
          /\ calls[i].result <=> (calls[i].ret = 0)
    /\ (last.fn # "none" /\ ~last.raised)
          => /\ Len(calls) = last.ncalls + 1
             /\ last.result = calls[Len(calls)].result
             /\ last.result <=> (calls[Len(calls)].ret = 0)

\* compress has answered false to a positive status and decompress true to 0
C4_Witness ==
    /\ Len(calls) = 2
    /\ calls[1].fn = "api_compress_file" /\ calls[1].ret = INT_MAX /\ ~calls[1].result
    /\ calls[2].fn = "api_decompress_file" /\ calls[2].ret = 0 /\ last.result

-----------------------------------------------------------------------------
(* C5 *)

\* C5: if the resolved library path does not exist, or the loader rejects the
\* file, initialization ends in exit status 1 before the entry points are
\* bound; no foreign call is made unless the library was loaded first.
C5_FailFast ==
    /\ calls # <<>> => (libhuffman.loaded /\ bound)
    /\ bound => (libhuffman.loaded /\ libhuffman.path \in libs)
    /\ (pc \notin {"import", "check_exists"} /\ lib_path \notin libs)
          => pc = "exit1" /\ ~libhuffman.loaded /\ ~bound /\ calls = <<>>
    /\ loadError
          => pc = "exit1" /\ ~libhuffman.loaded /\ ~bound /\ calls = <<>>
    /\ pc = "exit1" => (stages = <<>> /\ calls = <<>>)

\* the library file exists and the loader has rejected it
C5_Witness ==
    /\ loadError
    /\ lib_path \in libs
    /\ pc = "exit1"

-----------------------------------------------------------------------------
(* C6 *)

\* C6 as claimed: a platform identifier of none of the three recognized
\* families is an error: initialization never completes for it.
C6_UnrecognizedIsError == ~Recognized(platform) => ~bound

\* C6 as amended: the name is libhuffman.dll iff the identifier starts with
\* "win", libhuffman.dylib iff it starts with "darwin", and libhuffman.so in
\* every other case, a platform of none of the three families included.
C6_ThreeBranchesDefaultSo ==
    pc # "import"
        => /\ lib_name \in {LibSo, LibDll, LibDylib}
           /\ (lib_name = LibDll) <=> StartsWith(platform, Win)
           /\ (lib_name = LibDylib) <=> StartsWith(platform, Darwin)
           /\ (lib_name = LibSo)
                 <=> (~StartsWith(platform, Win) /\ ~StartsWith(platform, Darwin))
           /\ ~Recognized(platform) => lib_name = LibSo

\* on a platform of none of the three families the bridge has initialized
\* with libhuffman.so
C6_Witness ==
    /\ ~Recognized(platform)
    /\ lib_name = LibSo
    /\ bound

-----------------------------------------------------------------------------
(* C7 *)

\* C7: when the harness has run Verify it has reported exactly one of three
\* outcomes, decided by the file contents: identical iff the restored file
\* exists and equals the fixture byte for byte, differ iff it exists and
\* differs, not created iff it does not exist; no verdict is reported without
\* Verify, and the verdicts are not the compress/decompress failure lines.
C7_VerifyOutcome ==
    /\ pc = "Cleanup"
          => LET v == out[Len(out)]
                 orig == fs[input_file]
                 rest == fs[restored_file]
             IN  /\ v \in VerifyMsgs
                 /\ orig.exists
                 /\ (v = MsgIdentical) <=> (rest.exists /\ rest.data = orig.data)
                 /\ (v = MsgDiffer) <=> (rest.exists /\ rest.data # orig.data)
                 /\ (v = MsgNotCreated) <=> ~rest.exists
    /\ VerdictCount = (IF InSeq("Verify", stages) THEN 1 ELSE 0)
    /\ InSeq("Verify", stages)
          => Len(calls) = 2 /\ calls[1].ret = 0 /\ calls[2].ret = 0
    /\ VerifyMsgs \cap FailureMsgs = {}
    /\ Cardinality(VerifyMsgs) = 3

\* Verify has reported "different" for a restored file of the fixture's size
C7_Witness ==
    /\ pc = "Cleanup"
    /\ out[Len(out)] = MsgDiffer
    /\ fs[restored_file].exists
    /\ Len(fs[restored_file].data) = Len(fs[input_file].data)

-----------------------------------------------------------------------------
(* C8 *)

\* C8: in every run that reaches Verify, whatever the outcome, Cleanup runs
\* afterwards and at the end neither the compressed nor the restored file
\* exists; Cleanup never runs before Verify has reported.
C8_CleanupAfterVerify ==
    /\ (pc = "done" /\ InSeq("Verify", stages))
          => /\ InSeq("Cleanup", stages)
             /\ ~Exists(fs, compressed_file)
             /\ ~Exists(fs, restored_file)
             /\ fs[input_file] = fs0[input_file]
    /\ (InSeq("Cleanup", stages) \/ pc = "Cleanup")
          => InSeq("Verify", stages) /\ VerdictCount = 1
    /\ InSeq("Verify", stages) => pc \in {"Cleanup", "done"}

\* the run has ended after a "different" verdict on a restored file that
\* existed, and after Cleanup
C8_Witness ==
    /\ pc = "done"
    /\ InSeq(MsgDiffer, out)
    /\ InSeq("Cleanup", stages)
    /\ Len(calls) = 2

-----------------------------------------------------------------------------
(* C9 *)

\* C9: in compress and in decompress both paths are encoded before the
\* entry point is invoked: if either path has a character that cannot be
\* encoded, the operation fails with no foreign call and no file created or
\* modified; the bytes that do cross the boundary are the paths' UTF-8.
C9_EncodeBeforeCall ==
    /\ (last.fn # "none" /\ (~Encodable(last.input_path) \/ ~Encodable(last.output_path)))
          => last.raised /\ Len(calls) = last.ncalls /\ ~last.wrote
    /\ (last.fn # "none" /\ Encodable(last.input_path) /\ Encodable(last.output_path))
          => /\ ~last.raised
             /\ Len(calls) = last.ncalls + 1
             /\ calls[Len(calls)].input = Utf8Bytes(last.input_path)
             /\ calls[Len(calls)].output = Utf8Bytes(last.output_path)
    /\ \A i \in 1..Len(calls) :
          /\ \A k \in 1..Len(calls[i].input) : calls[i].input[k] \in 1..255
          /\ \A k \in 1..Len(calls[i].output) : calls[i].output[k] \in 1..255

\* decompress was given an output path that cannot be encoded, after a
\* compress that made its foreign call
C9_Witness ==
    /\ last.fn = "decompress"
    /\ Encodable(last.input_path)
    /\ ~Encodable(last.output_path)
    /\ last.raised
    /\ Len(calls) = 1

-----------------------------------------------------------------------------
(* C10 *)

\* C10: run_demo starts only if both existence checks pass, the bridge's of
\* the platform-resolved library and the entry point's of bin/libhuffman.so;
\* where only the platform-resolved library exists (Windows-like, macOS-like)
\* the script reports that bin/libhuffman.so was not found and makes no
\* foreign call; run_demo is never entered when bin/libhuffman.so is absent.
C10_TwoChecks ==
    LET so_path == Join4(platform, scriptDir, DotDot, BinDir, LibSo)
        resolved == Join4(platform, scriptDir, DotDot, BinDir,
                          IF StartsWith(platform, Win) THEN LibDll
                          ELSE IF StartsWith(platform, Darwin) THEN LibDylib
                          ELSE LibSo)
    IN  /\ (stages # <<>> \/ pc = "PreconditionCheck")
              => /\ resolved \in libs
                 /\ so_path \in libs
                 /\ libhuffman.loaded /\ libhuffman.path = resolved
        /\ so_path \notin libs
              => /\ stages = <<>>
                 /\ calls = <<>>
                 /\ pc # "PreconditionCheck"
                 /\ pc = "done" => InSeq(MsgNoSo, out)
        /\ InSeq(MsgNoSo, out) => (so_path \notin libs /\ pc = "done" /\ bound)

\* on Windows with only libhuffman.dll present and loaded, the script has
\* ended reporting that bin/libhuffman.so was not found
C10_Witness ==
    /\ StartsWith(platform, Win)
    /\ libs = {lib_path}
    /\ lib_name = LibDll
    /\ bound
    /\ pc = "done"
    /\ InSeq(MsgNoSo, out)
    /\ calls = <<>>

====
